---- MODULE Spec2Model ----
(***************************************************************************)
(* The quiz/session state machine of packages/backend/convex/quizzes.ts.   *)
(* One quiz, as createQuiz leaves it, its players, rounds and              *)
(* playerAnswers tables, the Convex scheduler's pending jobs and the       *)
(* clock.  Every mutation is one atomic step; the two internal actions     *)
(* (generateAiAnswers, autoLockAnswers) are not atomic: each of their      *)
(* runQuery / runMutation calls is a step of its own.                      *)
(***************************************************************************)
EXTENDS Integers, Sequences, FiniteSets, Bags, TLC

VARIABLES
    quiz,           \* the quizzes row
    players,        \* the players table, in insertion order; _id = index
    rounds,         \* the rounds table, in insertion order; _id = index
    playerAnswers,  \* the playerAnswers table, in insertion order
    scheduled,      \* ctx.scheduler: bag of pending / running jobs
    now,            \* Date.now()
    reply,          \* what the latest handler returned or threw
    context         \* AgentSystemContext and position of a generateAiAnswers run

vars == <<quiz, players, rounds, playerAnswers, scheduled, now, reply, context>>
tables == <<quiz, players, rounds, playerAnswers>>

-----------------------------------------------------------------------------
(* Bounds of the model *)

MaxPlayers == 2     \* non-host player rows ever inserted (Spec)
MaxRounds == 2      \* config.totalRounds of the multi-round runs (SpecRounds)
MaxTicks == 1       \* clock ticks
MaxCopies == 1
MaxQuarters == 8      \* identical pending lock jobs skipRound may add to

(* Program constants *)

MsPerSecond == 1000
BasePoints == 100
BonusScale == 50
MaxCapacity == 50
MaxNameLen == 20
MinPromptLen == 5
MaxPromptLen == 500
MaxSteps == 10

TickMs == MsPerSecond          \* the clock advances one second at a time
Undefined == 0 - 1          \* an optional field that is not set
Epoch == TickMs             \* Date.now() at creation: a positive timestamp
\* The two numbers of JavaScript the scoring can produce that are no integers.
\* They are kept apart from every integer the model computes with and take
\* part in no arithmetic: Add propagates them.
NaN == Undefined - 1
Infinity == Undefined - 2

-----------------------------------------------------------------------------
(* Inputs *)

Identities == {"owner", "stranger", "anonymous"}  \* ctx.auth.getUserIdentity()
JoinInputs == {[name |-> <<" ", "a">>, deviceFingerprint |-> "f1"],
               [name |-> <<"b">>, deviceFingerprint |-> "f2"]}
\* the joiners of SpecJoin and SpecLobby: also a second device with the name
\* "a", a second name on the device f1, and the host's fingerprint
JoinInputsJoin ==
    JoinInputs \cup {[name |-> <<"a">>, deviceFingerprint |-> "f2"],
                     [name |-> <<"b", " ">>, deviceFingerprint |-> "f1"],
                     [name |-> <<"c">>, deviceFingerprint |-> "host"]}
\* the joiners of SpecKick in their order of arrival: one more player
JoinOrderKick == <<[name |-> <<"a">>, deviceFingerprint |-> "f1"],
                   [name |-> <<"b">>, deviceFingerprint |-> "f2"],
                   [name |-> <<"c">>, deviceFingerprint |-> "f3"]>>
JoinInputsKick == {JoinOrderKick[k] : k \in DOMAIN JoinOrderKick}
Fingerprints == {"f1", "f2", "f3", "host"}
\* prompts: 5 characters; 4 after the trim; 5 after the trim; one more than
\* the longest accepted
Prompts == {<<"t", "o", "p", "i", "c">>, <<" ", "t", "o", "p", "i", " ">>,
            <<" ", "t", "o", "p", "i", "c", " ">>,
            [k \in 1 .. MaxPromptLen + 1 |-> "x"]}
AnswerInputs == {"correct", ""}
\* the answers of SpecScore and SpecPoints: the correct option and a wrong one
AnswerInputsScore == {"correct", "distractor_1"}
\* the answers of SpecAnswers: right, wrong and the empty id
AnswerInputsAll == AnswerInputs \cup AnswerInputsScore
\* the configurations of Spec (one round) and of SpecRounds (MaxRounds rounds)
Configs == {[totalRounds |-> 1, secondsPerQuestion |-> 1, secondsForPrompt |-> 1]}
\* the configurations of SpecScore; createQuiz and updateQuizConfig accept any
\* number for secondsPerQuestion
ConfigsScore ==
    {[totalRounds |-> 1, secondsPerQuestion |-> spq, secondsForPrompt |-> 1] :
        spq \in {0, 1}}
ConfigsRounds ==
    {[totalRounds |-> MaxRounds, secondsPerQuestion |-> 1, secondsForPrompt |-> 1]}
\* the configurations of SpecConfig: createQuiz and updateQuizConfig accept
\* any number for totalRounds, 0 included
ConfigsAny ==
    {[totalRounds |-> n, secondsPerQuestion |-> 1, secondsForPrompt |-> 1] :
        n \in 0 .. MaxRounds}
\* the inputs of SpecPoints: deadlines and clock readings a quarter of a
\* second apart, secondsPerQuestion 1 or 2
QuarterMs == MsPerSecond \div 4
Times == {Epoch + k * QuarterMs : k \in 0 .. MaxQuarters}
ConfigsPoints ==
    {[totalRounds |-> 1, secondsPerQuestion |-> spq, secondsForPrompt |-> 1] :
        spq \in {1, 2}}
\* draws j of Math.floor(Math.random() * (i + 1)) for i = 3, 2, 1
ShuffleDraws == {<<0, 2, 1>>}

Phases == {"lobby", "prompting", "generating", "answering", "reveal",
           "scoreboard", "finished"}

-----------------------------------------------------------------------------
(* Helpers *)

RECURSIVE TrimLeft(_)
TrimLeft(s) == IF s # <<>> /\ Head(s) = " " THEN TrimLeft(Tail(s)) ELSE s

RECURSIVE TrimRight(_)
TrimRight(s) ==
    IF s # <<>> /\ s[Len(s)] = " " THEN TrimRight(SubSeq(s, 1, Len(s) - 1)) ELSE s

Trim(s) == TrimRight(TrimLeft(s))

Max(a, b) == IF a >= b THEN a ELSE b

PlayerIds == DOMAIN players
RoundIds == DOMAIN rounds

EligiblePlayersKickedToo == {p \in PlayerIds : ~players[p].isHost}

\* .filter(isHost == false).filter(kickedAt == undefined).collect()
EligiblePlayers == {p \in PlayerIds : ~players[p].isHost /\ ~players[p].kicked}

\* withIndex("byRound", roundId).collect()
AnswersOfRound(roundId) ==
    {i \in DOMAIN playerAnswers : playerAnswers[i].roundId = roundId}

\* withIndex("byPlayerAndRound", playerId, roundId)
AnswersOf(playerId, roundId) ==
    {i \in DOMAIN playerAnswers :
        playerAnswers[i].playerId = playerId /\ playerAnswers[i].roundId = roundId}

\* withIndex("byQuizIndex", quizId, quiz.currentRoundIndex)
RoundsAtIndex(idx) == {r \in RoundIds : rounds[r].roundIndex = idx}

Job(fn, roundId, runAt, expectedDeadline, pc) ==
    [fn |-> fn, roundId |-> roundId, runAt |-> runAt,
     expectedDeadline |-> expectedDeadline, pc |-> pc]

Pending == BagToSet(scheduled)

\* the object a handler returns, without the ids: {success: true, reason},
\* {skipped: true, reason}, {skipped: false}
Reply(status, reason) == [status |-> status, reason |-> reason]

\* A handler that throws: Convex rolls the mutation back and hands the
\* error to the caller; nothing is committed.
Throw == UNCHANGED vars

\* no generateAiAnswers run is followed step by step
NoContext ==
    [pc |-> "idle", stepCount |-> 0, searchResults |-> 0, decideCalls |-> 0,
     searchCalls |-> 0, generateCalls |-> 0, withSearchContext |-> FALSE,
     searchFailed |-> FALSE, threw |-> "", commits |-> <<>>]

-----------------------------------------------------------------------------
(* State after createQuiz *)

InitWith(configs) ==
    /\ \E config \in configs :
        quiz = [authorId |-> "owner", config |-> config, phase |-> "lobby",
                currentRoundIndex |-> 0, answerDeadlineAt |-> Undefined,
                promptDeadlineAt |-> Undefined]
    /\ players = << [name |-> <<"H">>, deviceFingerprint |-> "host",
                     isHost |-> TRUE, score |-> 0, kicked |-> FALSE] >>
    /\ rounds = <<>>
    /\ playerAnswers = <<>>
    /\ scheduled = EmptyBag
    /\ now = Epoch
    /\ reply = Reply("success", "")
    /\ context = NoContext

-----------------------------------------------------------------------------
(* Lobby: joinQuiz, updateQuizConfig, kickPlayer *)

AuthErrorOwnerUnchecked(identity) ==
    IF identity = "anonymous" THEN "unauthenticated" ELSE "ok"

\* identity / ownership checks shared by the host-only mutations
AuthError(identity) ==
    IF identity = "anonymous" THEN "unauthenticated"
    ELSE IF quiz.authorId # identity THEN "not author"
    ELSE "ok"

joinQuizOutcomeAnyPhase(name, deviceFingerprint) ==
    LET sameFp == {p \in PlayerIds :
                      /\ players[p].deviceFingerprint = deviceFingerprint
                      /\ ~players[p].kicked}
        sameName == {p \in PlayerIds :
                      players[p].name = Trim(name) /\ ~players[p].kicked}
        active == {p \in PlayerIds : ~players[p].kicked}
    IN  IF sameFp # {} THEN "rejoin"
        ELSE IF Trim(name) = <<>> \/ Len(name) > MaxNameLen THEN "error: name"
        ELSE IF sameName # {} THEN "error: name taken"
        ELSE IF Cardinality(active) >= MaxCapacity THEN "error: full"
        ELSE "ok"

joinQuizOutcomeNameUnchecked(name, deviceFingerprint) ==
    LET sameFp == {p \in PlayerIds :
                      /\ players[p].deviceFingerprint = deviceFingerprint
                      /\ ~players[p].kicked}
        active == {p \in PlayerIds : ~players[p].kicked}
    IN  IF sameFp # {} THEN "rejoin"
        ELSE IF quiz.phase # "lobby" THEN "error: started"
        ELSE IF Trim(name) = <<>> \/ Len(name) > MaxNameLen THEN "error: name"
        ELSE IF Cardinality(active) >= MaxCapacity THEN "error: full"
        ELSE "ok"

joinQuizOutcome(name, deviceFingerprint) ==
    LET sameFp == {p \in PlayerIds :
                      /\ players[p].deviceFingerprint = deviceFingerprint
                      /\ ~players[p].kicked}
        sameName == {p \in PlayerIds :
                      players[p].name = Trim(name) /\ ~players[p].kicked}
        active == {p \in PlayerIds : ~players[p].kicked}
    IN  IF sameFp # {} THEN "rejoin"
        ELSE IF quiz.phase # "lobby" THEN "error: started"
        ELSE IF Trim(name) = <<>> \/ Len(name) > MaxNameLen THEN "error: name"
        ELSE IF sameName # {} THEN "error: name taken"
        ELSE IF Cardinality(active) >= MaxCapacity THEN "error: full"
        ELSE "ok"

\* the playerId an accepted joinQuiz returns: the first non-kicked row of the
\* device, or the row it inserts
joinQuizPlayerId(name, deviceFingerprint) ==
    LET sameFp == {p \in PlayerIds :
                      /\ players[p].deviceFingerprint = deviceFingerprint
                      /\ ~players[p].kicked}
    IN  IF sameFp # {}
        THEN CHOOSE p \in sameFp : \A q \in sameFp : p <= q
        ELSE Len(players) + 1

joinQuiz(name, deviceFingerprint) ==
    LET outcome == joinQuizOutcome(name, deviceFingerprint)
    IN  IF outcome = "rejoin"
        THEN /\ reply' = Reply("success", "")
             /\ UNCHANGED <<tables, scheduled, now, context>>
        ELSE IF outcome # "ok" THEN Throw
        ELSE /\ players' = Append(players,
                    [name |-> Trim(name), deviceFingerprint |-> deviceFingerprint,
                     isHost |-> FALSE, score |-> 0, kicked |-> FALSE])
             /\ reply' = Reply("success", "")
             /\ UNCHANGED <<quiz, rounds, playerAnswers, scheduled, now, context>>

updateQuizConfigOutcomeAnyPhase(identity) ==
    IF AuthError(identity) # "ok" THEN "error: auth" ELSE "ok"

updateQuizConfigOutcome(identity) ==
    IF AuthError(identity) # "ok" THEN "error: auth"
    ELSE IF quiz.phase # "lobby" THEN "error: not lobby"
    ELSE "ok"

updateQuizConfig(identity, config) ==
    IF updateQuizConfigOutcome(identity) # "ok" THEN Throw
    ELSE /\ quiz' = [quiz EXCEPT !.config = config]
         /\ reply' = Reply("success", "")
         /\ UNCHANGED <<players, rounds, playerAnswers, scheduled, now, context>>

kickPlayerOutcome(identity, playerId) ==
    IF AuthError(identity) # "ok" THEN "error: auth"
    ELSE IF playerId \notin PlayerIds THEN "error: not found"
    ELSE IF players[playerId].isHost THEN "error: host"
    ELSE "ok"

kickPlayer(identity, playerId) ==
    IF kickPlayerOutcome(identity, playerId) # "ok" THEN Throw
    ELSE /\ players' = [players EXCEPT ![playerId].kicked = TRUE]
         /\ reply' = Reply("success", "")
         /\ UNCHANGED <<quiz, rounds, playerAnswers, scheduled, now, context>>

-----------------------------------------------------------------------------
(* Host controls: endQuiz, skipRound, startGame *)

endQuizOutcome(identity) ==
    IF AuthError(identity) # "ok" THEN "error: auth" ELSE "ok"

endQuiz(identity) ==
    IF endQuizOutcome(identity) # "ok" THEN Throw
    ELSE /\ quiz' = [quiz EXCEPT !.phase = "finished",
                                 !.answerDeadlineAt = Undefined,
                                 !.promptDeadlineAt = Undefined]
         /\ reply' = Reply("success", "")
         /\ UNCHANGED <<players, rounds, playerAnswers, scheduled, now, context>>

skipRoundOutcomeScoreboardSkipped(identity) ==
    IF AuthError(identity) # "ok" THEN "error: auth"
    ELSE IF quiz.phase \in {"finished"} THEN "nothing to skip"
    ELSE IF Cardinality(RoundsAtIndex(quiz.currentRoundIndex)) # 1
        THEN "error: no active round"
    ELSE IF quiz.phase = "answering" THEN "schedule lock"
    ELSE "reveal"

skipRoundOutcome(identity) ==
    IF AuthError(identity) # "ok" THEN "error: auth"
    ELSE IF quiz.phase \in {"finished", "scoreboard"} THEN "nothing to skip"
    ELSE IF Cardinality(RoundsAtIndex(quiz.currentRoundIndex)) # 1
        THEN "error: no active round"
    ELSE IF quiz.phase = "answering" THEN "schedule lock"
    ELSE "reveal"

skipRound(identity) ==
    LET outcome == skipRoundOutcome(identity)
        lockJob(r) == Job("autoLockAnswersInternal", r, Undefined, Undefined, "scheduled")
    IN  IF outcome \in {"error: auth", "error: no active round"} THEN Throw
        ELSE IF outcome = "nothing to skip"
            THEN /\ reply' = Reply("skipped: false", "")
                 /\ UNCHANGED <<tables, scheduled, now, context>>
        ELSE \E r \in RoundsAtIndex(quiz.currentRoundIndex) :
            IF outcome = "schedule lock"
            THEN /\ CopiesIn(lockJob(r), scheduled) < MaxCopies
                 /\ scheduled' = scheduled (+) SetToBag({lockJob(r)})
                 /\ reply' = Reply("success", "")
                 /\ UNCHANGED <<tables, now, context>>
            ELSE /\ rounds' = [rounds EXCEPT ![r].completedAt = now]
                 /\ quiz' = [quiz EXCEPT !.phase = "reveal",
                                         !.promptDeadlineAt = Undefined]
                 /\ reply' = Reply("success", "")
                 /\ UNCHANGED <<players, playerAnswers, scheduled, now, context>>

NewRoundIndexShifted(roundIndex, prompter) ==
    [roundIndex |-> roundIndex + 1, prompterPlayerId |-> prompter,
     promptText |-> <<>>, aiAnswerOptions |-> <<>>, aiErrored |-> FALSE,
     completedAt |-> Undefined]

NewRound(roundIndex, prompter) ==
    [roundIndex |-> roundIndex, prompterPlayerId |-> prompter,
     promptText |-> <<>>, aiAnswerOptions |-> <<>>, aiErrored |-> FALSE,
     completedAt |-> Undefined]

startGameOutcomeAnyPhase(identity) ==
    IF AuthError(identity) # "ok" THEN "error: auth"
    ELSE IF EligiblePlayers = {} THEN "error: no players"
    ELSE "ok"

startGameOutcome(identity) ==
    IF AuthError(identity) # "ok" THEN "error: auth"
    ELSE IF quiz.phase # "lobby" THEN "error: not lobby"
    ELSE IF EligiblePlayers = {} THEN "error: no players"
    ELSE "ok"

startGame(identity) ==
    IF startGameOutcome(identity) # "ok" THEN Throw
    ELSE \E randomPrompter \in EligiblePlayers :
        /\ rounds' = Append(rounds, NewRound(0, randomPrompter))
        /\ quiz' = [quiz EXCEPT
                !.phase = "prompting",
                !.promptDeadlineAt = now + quiz.config.secondsForPrompt * MsPerSecond]
        /\ reply' = Reply("success", "")
        /\ UNCHANGED <<players, playerAnswers, scheduled, now, context>>

-----------------------------------------------------------------------------
(* Prompting and generation *)

submitPromptOutcomeAnyPhase(roundId, promptText) ==
    IF roundId \notin RoundIds THEN "error: round not found"
    ELSE IF rounds[roundId].roundIndex # quiz.currentRoundIndex
        THEN "error: not active round"
    ELSE IF Len(Trim(promptText)) < MinPromptLen THEN "error: too short"
    ELSE IF Len(Trim(promptText)) > MaxPromptLen THEN "error: too long"
    ELSE "ok"

submitPromptOutcome(roundId, promptText) ==
    IF quiz.phase # "prompting" THEN "error: not prompting"
    ELSE IF roundId \notin RoundIds THEN "error: round not found"
    ELSE IF rounds[roundId].roundIndex # quiz.currentRoundIndex
        THEN "error: not active round"
    ELSE IF Len(Trim(promptText)) < MinPromptLen THEN "error: too short"
    ELSE IF Len(Trim(promptText)) > MaxPromptLen THEN "error: too long"
    ELSE "ok"

submitPrompt(roundId, promptText) ==
    IF submitPromptOutcome(roundId, promptText) # "ok" THEN Throw
    ELSE /\ rounds' = [rounds EXCEPT ![roundId].promptText = Trim(promptText)]
         /\ quiz' = [quiz EXCEPT !.phase = "generating",
                                 !.promptDeadlineAt = Undefined]
         /\ scheduled' = scheduled (+) SetToBag(
                {Job("generateAiAnswers", roundId, Undefined, Undefined, "scheduled")})
         /\ reply' = Reply("success", "")
         /\ UNCHANGED <<players, playerAnswers, now, context>>

\* submitPrompt as called from the device of player `caller`: the arguments
\* carry neither the player nor the device, and the handler reads no identity
submitPromptBy(caller, roundId, promptText) == submitPrompt(roundId, promptText)

Option(id) == [id |-> id, isCorrect |-> (id = "correct")]

Swap(seq, i, j) == [seq EXCEPT ![i] = seq[j], ![j] = seq[i]]

\* the Fisher-Yates loop, i = 3, 2, 1 (0-based), with draws[k] the j drawn
ShuffledOptions(draws) ==
    LET allOptions == <<Option("correct"), Option("distractor_1"),
                        Option("distractor_2"), Option("distractor_3")>>
        s3 == Swap(allOptions, 4, draws[1] + 1)
        s2 == Swap(s3, 3, draws[2] + 1)
    IN  Swap(s2, 2, draws[3] + 1)

\* the commit guard of advanceToAnswering: the quiz row exists
advanceToAnsweringGuard(roundId) == TRUE

advanceToAnsweringStaleDeadline(roundId, aiAnswerOptions, question, sched) ==
    LET answerDeadlineAt == now + quiz.config.secondsPerQuestion * MsPerSecond
    IN  /\ rounds' = [rounds EXCEPT ![roundId].aiAnswerOptions = aiAnswerOptions,
                                    ![roundId].promptText = question]
        /\ quiz' = [quiz EXCEPT !.phase = "answering",
                                !.answerDeadlineAt = answerDeadlineAt]
        /\ scheduled' = sched (+) SetToBag(
              {Job("autoLockAnswers", roundId,
                   now + quiz.config.secondsPerQuestion * MsPerSecond,
                   now, "scheduled")})
        /\ UNCHANGED <<players, playerAnswers, now>>

\* internalMutation advanceToAnswering, run by the job whose removal leaves sched
advanceToAnswering(roundId, aiAnswerOptions, question, sched) ==
    LET answerDeadlineAt == now + quiz.config.secondsPerQuestion * MsPerSecond
    IN  /\ rounds' = [rounds EXCEPT ![roundId].aiAnswerOptions = aiAnswerOptions,
                                    ![roundId].promptText = question]
        /\ quiz' = [quiz EXCEPT !.phase = "answering",
                                !.answerDeadlineAt = answerDeadlineAt]
        /\ scheduled' = sched (+) SetToBag(
              {Job("autoLockAnswers", roundId,
                   now + quiz.config.secondsPerQuestion * MsPerSecond,
                   answerDeadlineAt, "scheduled")})
        /\ UNCHANGED <<players, playerAnswers, now>>

markRoundErroredRetry(roundId, sched) ==
    /\ rounds' = [rounds EXCEPT ![roundId].aiErrored = TRUE]
    /\ scheduled' = sched (+) SetToBag(
          {Job("generateAiAnswers", roundId, Undefined, Undefined, "scheduled")})
    /\ UNCHANGED <<quiz, players, playerAnswers, now>>

\* internalMutation markRoundErrored
markRoundErrored(roundId, sched) ==
    /\ rounds' = [rounds EXCEPT ![roundId].aiErrored = TRUE]
    /\ scheduled' = sched
    /\ UNCHANGED <<quiz, players, playerAnswers, now>>

\* internalAction generateAiAnswers: its decide / search / generate calls touch
\* no table; the run ends in exactly one commit.  Success: the options are
\* shuffled and handed to advanceToAnswering.
generateAiAnswersSuccess(job, draws) ==
    /\ job \in Pending
    /\ job.fn = "generateAiAnswers"
    /\ IF advanceToAnsweringGuard(job.roundId)
       THEN advanceToAnswering(job.roundId, ShuffledOptions(draws), <<"q">>,
                               scheduled (-) SetToBag({job}))
       ELSE /\ scheduled' = scheduled (-) SetToBag({job})
            /\ UNCHANGED <<tables, now>>
    /\ reply' = Reply("success", "")
    /\ UNCHANGED context

\* Failure: the catch block hands the round to markRoundErrored.
generateAiAnswersFailure(job) ==
    /\ job \in Pending
    /\ job.fn = "generateAiAnswers"
    /\ markRoundErrored(job.roundId, scheduled (-) SetToBag({job}))
    /\ reply' = Reply("success", "")
    /\ UNCHANGED context

generateAiAnswers(job) ==
    \/ \E draws \in ShuffleDraws : generateAiAnswersSuccess(job, draws)
    \/ generateAiAnswersFailure(job)

-----------------------------------------------------------------------------
(* generateAiAnswers step by step: the agent loop of the run, one step per  *)
(* awaited call.  context holds the AgentSystemContext (stepCount, the      *)
(* number of searchResults), where the run stands (pc), and a log of the    *)
(* calls it has made and of the commits that took effect.                   *)

\* what decideNextAction can hand back: the two actions of nextActionSchema,
\* searchQuery being optional, or an exception
Decisions == {"google-search", "google-search without searchQuery",
              "generate-object", "throws"}
\* what performWebSearch and generateTriviaQuestion can do
CallResults == {"returns", "throws"}

agentStart(job) ==
    /\ job \in Pending /\ job.fn = "generateAiAnswers"
    /\ context.pc = "idle"
    /\ context' = [context EXCEPT !.pc = "while"]
    /\ UNCHANGED <<tables, scheduled, now, reply>>

\* while (stepCount < maxSteps) { stepCount++; await decideNextAction(...)
agentDecide(decision) ==
    /\ context.pc = "while"
    /\ context.stepCount < MaxSteps
    /\ context' = [context EXCEPT
            !.stepCount = @ + 1,
            !.decideCalls = @ + 1,
            !.pc = IF decision = "google-search" THEN "search"
                   ELSE IF decision = "generate-object" THEN "generate"
                   ELSE "catch",
            !.threw = IF decision = "throws" THEN "decideNextAction"
                      ELSE IF decision = "google-search without searchQuery"
                          THEN "searchQuery"
                      ELSE @]
    /\ UNCHANGED <<tables, scheduled, now, reply>>

agentExhaustedNoFallback ==
    /\ context.pc = "while"
    /\ ~(context.stepCount < MaxSteps)
    /\ context' = [context EXCEPT !.pc = "done"]
    /\ UNCHANGED <<tables, scheduled, now, reply>>

\* the loop ends with the step budget used up
agentExhausted ==
    /\ context.pc = "while"
    /\ ~(context.stepCount < MaxSteps)
    /\ context' = [context EXCEPT !.pc = "fallback"]
    /\ UNCHANGED <<tables, scheduled, now, reply>>

agentSearchFailureCaught(result) ==
    /\ context.pc = "search"
    /\ context' = [context EXCEPT
            !.searchCalls = @ + 1,
            !.searchResults = IF result = "returns" THEN @ + 1 ELSE @,
            !.searchFailed = (result = "throws") \/ @,
            !.pc = IF result = "returns" THEN "while" ELSE "catch"]
    /\ UNCHANGED <<tables, scheduled, now, reply>>

\* try { await performWebSearch(...); searchResults.push(...) } catch { break }
agentSearch(result) ==
    /\ context.pc = "search"
    /\ context' = [context EXCEPT
            !.searchCalls = @ + 1,
            !.searchResults = IF result = "returns" THEN @ + 1 ELSE @,
            !.searchFailed = (result = "throws") \/ @,
            !.pc = IF result = "returns" THEN "while" ELSE "fallback"]
    /\ UNCHANGED <<tables, scheduled, now, reply>>

\* await generateTriviaQuestion(...): in the loop with the search context,
\* after the loop without it
agentGenerate(result) ==
    /\ context.pc \in {"generate", "fallback"}
    /\ context' = [context EXCEPT
            !.generateCalls = @ + 1,
            !.withSearchContext = (context.pc = "generate"),
            !.pc = IF result = "returns" THEN "commit" ELSE "catch",
            !.threw = IF result = "throws" THEN "generateTriviaQuestion" ELSE @]
    /\ UNCHANGED <<tables, scheduled, now, reply>>

\* await ctx.runMutation(advanceToAnswering, ...); the handler throws when
\* its guard fails, and the exception lands in the catch block
agentCommit(job, draws) ==
    /\ job \in Pending /\ job.fn = "generateAiAnswers"
    /\ context.pc = "commit"
    /\ IF advanceToAnsweringGuard(job.roundId)
       THEN /\ advanceToAnswering(job.roundId, ShuffledOptions(draws), <<"q">>,
                                  scheduled (-) SetToBag({job}))
            /\ context' = [context EXCEPT
                    !.pc = "done",
                    !.commits = Append(@, "advanceToAnswering")]
       ELSE /\ context' = [context EXCEPT !.pc = "catch",
                                          !.threw = "advanceToAnswering"]
            /\ UNCHANGED <<tables, scheduled, now>>
    /\ reply' = Reply("success", "")

\* catch (error) { await ctx.runMutation(markRoundErrored, ...) }
agentCatch(job) ==
    /\ job \in Pending /\ job.fn = "generateAiAnswers"
    /\ context.pc = "catch"
    /\ markRoundErrored(job.roundId, scheduled (-) SetToBag({job}))
    /\ context' = [context EXCEPT !.pc = "done",
                                  !.commits = Append(@, "markRoundErrored")]
    /\ reply' = Reply("success", "")

-----------------------------------------------------------------------------
(* Answering: submitAnswer, lockAnswers, the lock jobs *)

FindOptionAnyId(roundId, selectedOptionId) ==
    DOMAIN rounds[roundId].aiAnswerOptions

\* round.aiAnswerOptions.find(option => option.id === selectedOptionId)
FindOption(roundId, selectedOptionId) ==
    {k \in DOMAIN rounds[roundId].aiAnswerOptions :
        rounds[roundId].aiAnswerOptions[k].id = selectedOptionId}

PlayerByFingerprintKickedToo(deviceFingerprint) ==
    {p \in PlayerIds : players[p].deviceFingerprint = deviceFingerprint}

\* the player of this device: non-host, not kicked
PlayerByFingerprint(deviceFingerprint) ==
    {p \in EligiblePlayers : players[p].deviceFingerprint = deviceFingerprint}

existingAnswerIgnored(playerId, roundId) == FALSE

\* the byPlayerAndRound lookup before the insert
existingAnswer(playerId, roundId) == AnswersOf(playerId, roundId) # {}

submitAnswerOutcome(roundId, selectedOptionId, deviceFingerprint) ==
    IF quiz.phase # "answering" THEN "error: not answering"
    ELSE IF roundId \notin RoundIds THEN "error: round not found"
    ELSE IF rounds[roundId].roundIndex # quiz.currentRoundIndex
        THEN "error: not active round"
    ELSE IF rounds[roundId].aiAnswerOptions = <<>> THEN "error: no options"
    ELSE IF FindOption(roundId, selectedOptionId) = {} THEN "error: invalid option"
    ELSE IF Cardinality(PlayerByFingerprint(deviceFingerprint)) # 1
        THEN "error: player not found"
    ELSE IF \E p \in PlayerByFingerprint(deviceFingerprint) : existingAnswer(p, roundId)
        THEN "error: already answered"
    ELSE "ok"

\* a + b of JavaScript numbers
Add(a, b) ==
    IF a = NaN \/ b = NaN THEN NaN
    ELSE IF a = Infinity \/ b = Infinity THEN Infinity
    ELSE a + b

SpeedBonusUnclamped(timeRemainingMs, totalTimeMs) ==
    IF totalTimeMs = 0 THEN NaN
    ELSE (timeRemainingMs * BonusScale) \div totalTimeMs

\* Math.max(0, Math.floor((timeRemainingMs / totalTimeMs) * 50)).  A zero
\* divisor gives NaN (0 / 0), Infinity or -Infinity; Math.max(0, NaN) is NaN.
\* The quotient is computed on integers: exact for the inputs used here, whose
\* quotients are multiples of 1/8 and so are exact doubles.
SpeedBonus(timeRemainingMs, totalTimeMs) ==
    IF totalTimeMs = 0
    THEN IF timeRemainingMs = 0 THEN NaN
         ELSE IF timeRemainingMs > 0 THEN Infinity
         ELSE 0
    ELSE IF totalTimeMs > 0
    THEN Max(0, (timeRemainingMs * BonusScale) \div totalTimeMs)
    ELSE Max(0, ((0 - timeRemainingMs) * BonusScale) \div (0 - totalTimeMs))

\* let points = 0; if (isCorrect) { points = 100; if (answerDeadlineAt) ... }
PointsFor(isCorrect, answerDeadlineAt, secondsPerQuestion, nowMs) ==
    IF ~isCorrect THEN 0
    ELSE IF answerDeadlineAt = Undefined \/ answerDeadlineAt = 0
        THEN BasePoints
    ELSE Add(BasePoints, SpeedBonus(answerDeadlineAt - nowMs,
                                    secondsPerQuestion * MsPerSecond))

Points(isCorrect) ==
    PointsFor(isCorrect, quiz.answerDeadlineAt, quiz.config.secondsPerQuestion, now)

\* allPlayers.length > 0 && allAnswers.length >= allPlayers.length, evaluated
\* on the tables passed in (submitAnswer evaluates it after its insert)
AllAnswered(eligible, answerCount) ==
    Cardinality(eligible) > 0 /\ answerCount >= Cardinality(eligible)

submitAnswer(roundId, selectedOptionId, deviceFingerprint) ==
    IF submitAnswerOutcome(roundId, selectedOptionId, deviceFingerprint) # "ok"
    THEN Throw
    ELSE \E player \in PlayerByFingerprint(deviceFingerprint) :
        LET selectedOption ==
                rounds[roundId].aiAnswerOptions[
                    CHOOSE k \in FindOption(roundId, selectedOptionId) :
                        \A m \in FindOption(roundId, selectedOptionId) : k <= m]
            points == Points(selectedOption.isCorrect)
        IN  /\ playerAnswers' = Append(playerAnswers,
                    [roundId |-> roundId, playerId |-> player,
                     selectedOptionId |-> selectedOptionId,
                     isCorrect |-> selectedOption.isCorrect])
            /\ players' = [players EXCEPT ![player].score = Add(@, points)]
            /\ scheduled' =
                  IF AllAnswered(EligiblePlayers,
                                 Cardinality(AnswersOfRound(roundId)) + 1)
                  THEN scheduled (+) SetToBag(
                         {Job("autoLockAnswersInternal", roundId, Undefined,
                              Undefined, "scheduled")})
                  ELSE scheduled
            /\ reply' = Reply("success", "")
            /\ UNCHANGED <<quiz, rounds, now, context>>

NoAnswerRowsKickedToo(roundId) ==
    LET answeredPlayerIds ==
            {playerAnswers[i].playerId : i \in AnswersOfRound(roundId)}
        ids == [i \in 1..Len(players) |-> i]
        missing == SelectSeq(ids,
            LAMBDA p : ~players[p].isHost /\ p \notin answeredPlayerIds)
    IN  [k \in 1..Len(missing) |->
            [roundId |-> roundId, playerId |-> missing[k],
             selectedOptionId |-> "", isCorrect |-> FALSE]]

\* the "no answer" rows for the eligible players without an answer, in
\* table order
NoAnswerRows(roundId) ==
    LET answeredPlayerIds ==
            {playerAnswers[i].playerId : i \in AnswersOfRound(roundId)}
        ids == [i \in 1..Len(players) |-> i]
        missing == SelectSeq(ids,
            LAMBDA p : p \in EligiblePlayers /\ p \notin answeredPlayerIds)
    IN  [k \in 1..Len(missing) |->
            [roundId |-> roundId, playerId |-> missing[k],
             selectedOptionId |-> "", isCorrect |-> FALSE]]

\* the writes shared by lockAnswers and autoLockAnswersInternal
LockWrites(roundId) ==
    /\ playerAnswers' = playerAnswers \o NoAnswerRows(roundId)
    /\ rounds' = [rounds EXCEPT ![roundId].completedAt = now]
    /\ quiz' = [quiz EXCEPT !.phase = "reveal", !.answerDeadlineAt = Undefined]
    /\ UNCHANGED <<players, now, context>>

lockAnswersOutcome(identity, roundId) ==
    IF AuthError(identity) # "ok" THEN "error: auth"
    ELSE IF quiz.phase # "answering" THEN "error: not answering"
    ELSE IF roundId \notin RoundIds THEN "error: round not found"
    ELSE IF rounds[roundId].roundIndex # quiz.currentRoundIndex
        THEN "error: not active round"
    ELSE "ok"

lockAnswers(identity, roundId) ==
    IF lockAnswersOutcome(identity, roundId) # "ok" THEN Throw
    ELSE /\ LockWrites(roundId)
         /\ reply' = Reply("success", "")
         /\ UNCHANGED scheduled

autoLockAnswersInternalOutcome(roundId) ==
    IF quiz.phase # "answering" THEN "skipped"
    ELSE IF roundId \notin RoundIds
            \/ rounds[roundId].roundIndex # quiz.currentRoundIndex
        THEN "skipped"
    ELSE "ok"

\* internalMutation autoLockAnswersInternal, run from the scheduler
autoLockAnswersInternal(job) ==
    /\ job \in Pending
    /\ job.fn = "autoLockAnswersInternal"
    /\ scheduled' = scheduled (-) SetToBag({job})
    /\ IF autoLockAnswersInternalOutcome(job.roundId) = "ok"
       THEN /\ LockWrites(job.roundId)
            /\ reply' = Reply("success", "")
       ELSE /\ reply' = Reply("skipped", "")
            /\ UNCHANGED <<tables, now, context>>

\* internalQuery getQuizForAutoLock: does the quiz still wait for this deadline
getQuizForAutoLock(expectedDeadline) ==
    ~ \/ quiz.phase # "answering"
      \/ quiz.answerDeadlineAt = Undefined
      \/ quiz.answerDeadlineAt = 0
      \/ quiz.answerDeadlineAt # expectedDeadline

\* internalQuery checkAllPlayersAnswered
checkAllPlayersAnswered(roundId) ==
    AllAnswered(EligiblePlayers, Cardinality(AnswersOfRound(roundId)))

\* internalAction autoLockAnswers, first call: runQuery(getQuizForAutoLock)
autoLockAnswersRead(job) ==
    /\ job \in Pending
    /\ job.fn = "autoLockAnswers" /\ job.pc = "scheduled"
    /\ now >= job.runAt
    /\ IF getQuizForAutoLock(job.expectedDeadline)
       THEN /\ scheduled' = (scheduled (-) SetToBag({job}))
                                (+) SetToBag({[job EXCEPT !.pc = "check"]})
            /\ UNCHANGED reply
       ELSE /\ scheduled' = scheduled (-) SetToBag({job})
            /\ reply' = Reply("skipped", "")
    /\ UNCHANGED <<tables, now, context>>

\* second call: runQuery(checkAllPlayersAnswered)
autoLockAnswersCheck(job) ==
    /\ job \in Pending
    /\ job.fn = "autoLockAnswers" /\ job.pc = "check"
    /\ IF checkAllPlayersAnswered(job.roundId)
       THEN /\ scheduled' = scheduled (-) SetToBag({job})
            /\ reply' = Reply("skipped", "all_answered")
       ELSE /\ scheduled' = (scheduled (-) SetToBag({job}))
                                (+) SetToBag({[job EXCEPT !.pc = "lock"]})
            /\ UNCHANGED reply
    /\ UNCHANGED <<tables, now, context>>

\* third call: runMutation(autoLockAnswersInternal); its result is dropped
autoLockAnswersLock(job) ==
    /\ job \in Pending
    /\ job.fn = "autoLockAnswers" /\ job.pc = "lock"
    /\ scheduled' = scheduled (-) SetToBag({job})
    /\ IF autoLockAnswersInternalOutcome(job.roundId) = "ok"
       THEN LockWrites(job.roundId)
       ELSE UNCHANGED <<tables, now, context>>
    /\ reply' = Reply("success", "timeout")

-----------------------------------------------------------------------------
(* Reveal and scoreboard: advancePhase *)

nextRoundIndexStuck == quiz.currentRoundIndex

nextRoundIndex == quiz.currentRoundIndex + 1

advancePhaseOutcomeOffByOne(identity) ==
    IF AuthError(identity) # "ok" THEN "error: auth"
    ELSE IF quiz.phase = "reveal" THEN "scoreboard"
    ELSE IF quiz.phase = "scoreboard"
        THEN IF nextRoundIndex <= quiz.config.totalRounds
             THEN IF EligiblePlayers = {} THEN "error: no players" ELSE "prompting"
             ELSE "finished"
    ELSE "error: cannot advance"

advancePhaseOutcome(identity) ==
    IF AuthError(identity) # "ok" THEN "error: auth"
    ELSE IF quiz.phase = "reveal" THEN "scoreboard"
    ELSE IF quiz.phase = "scoreboard"
        THEN IF nextRoundIndex < quiz.config.totalRounds
             THEN IF EligiblePlayers = {} THEN "error: no players" ELSE "prompting"
             ELSE "finished"
    ELSE "error: cannot advance"

advancePhase(identity) ==
    LET outcome == advancePhaseOutcome(identity)
    IN  IF outcome = "scoreboard"
        THEN /\ quiz' = [quiz EXCEPT !.phase = "scoreboard"]
             /\ reply' = Reply("success", "")
             /\ UNCHANGED <<players, rounds, playerAnswers, scheduled, now, context>>
        ELSE IF outcome = "prompting"
        THEN \E randomPrompter \in EligiblePlayers :
             /\ rounds' = Append(rounds, NewRound(nextRoundIndex, randomPrompter))
             /\ quiz' = [quiz EXCEPT
                    !.phase = "prompting",
                    !.currentRoundIndex = nextRoundIndex,
                    !.promptDeadlineAt =
                        now + quiz.config.secondsForPrompt * MsPerSecond]
             /\ reply' = Reply("success", "")
             /\ UNCHANGED <<players, playerAnswers, scheduled, now, context>>
        ELSE IF outcome = "finished"
        THEN /\ quiz' = [quiz EXCEPT !.phase = "finished"]
             /\ reply' = Reply("success", "")
             /\ UNCHANGED <<players, rounds, playerAnswers, scheduled, now, context>>
        ELSE Throw

-----------------------------------------------------------------------------
(* Queries: getLeaderboard, getQuizLive *)

\* the collation rank of the characters the names are made of
CharRank(c) ==
    IF c = " " THEN 0
    ELSE IF c = "a" THEN 1
    ELSE IF c = "b" THEN 2
    ELSE IF c = "c" THEN 3
    ELSE 4

\* a.localeCompare(b): negative, zero or positive
RECURSIVE localeCompare(_, _)
localeCompare(a, b) ==
    IF a = <<>> THEN (IF b = <<>> THEN 0 ELSE 0 - 1)
    ELSE IF b = <<>> THEN 1
    ELSE IF CharRank(Head(a)) # CharRank(Head(b))
        THEN CharRank(Head(a)) - CharRank(Head(b))
    ELSE localeCompare(Tail(a), Tail(b))

\* the comparator of the sort: b.score - a.score when the scores differ (NaN
\* differs from every number and from itself, and the difference is then
\* NaN), the comparison of the names otherwise
compareFn(a, b) ==
    IF a.score # b.score \/ a.score = NaN
    THEN IF a.score = NaN \/ b.score = NaN THEN NaN ELSE b.score - a.score
    ELSE localeCompare(a.name, b.name)

\* Array.prototype.sort: stable, and a comparator result of NaN counts as 0
RECURSIVE SortPlayers(_)
SortPlayers(seq) ==
    IF Len(seq) <= 1 THEN seq
    ELSE LET front == SortPlayers(SubSeq(seq, 1, Len(seq) - 1))
             x == seq[Len(seq)]
             after(e) == compareFn(e, x) # NaN /\ compareFn(e, x) > 0
             k == CHOOSE n \in 0 .. Len(front) :
                    /\ \A m \in n + 1 .. Len(front) : after(front[m])
                    /\ n = 0 \/ ~after(front[n])
         IN  SubSeq(front, 1, k) \o <<x>> \o SubSeq(front, k + 1, Len(front))

\* the rows a player query returns, in table order
PlayerRows(ids) ==
    LET all == [p \in 1 .. Len(players) |->
                  [playerId |-> p, name |-> players[p].name,
                   score |-> players[p].score]]
    IN  SelectSeq(all, LAMBDA row : row.playerId \in ids)

\* query getLeaderboard
getLeaderboard ==
    LET sortedPlayers == SortPlayers(PlayerRows(EligiblePlayers))
    IN  [index \in 1 .. Len(sortedPlayers) |->
            [playerId |-> sortedPlayers[index].playerId,
             name |-> sortedPlayers[index].name,
             score |-> sortedPlayers[index].score,
             position |-> index]]

\* the players of query getQuizLive: every non-kicked row, the host included
getQuizLivePlayers == PlayerRows({p \in PlayerIds : ~players[p].kicked})

-----------------------------------------------------------------------------

\* The clock.  Time is advanced to the moment an outstanding answering timer
\* falls due; the handlers between two such moments run at the same Date.now().
Tick ==
    /\ now < Epoch + MaxTicks * TickMs
    /\ \E job \in Pending : job.fn = "autoLockAnswers" /\ job.runAt > now
    /\ now' = now + TickMs
    /\ UNCHANGED <<tables, scheduled, reply, context>>

JobStep ==
    \/ \E job \in Pending : generateAiAnswers(job)
    \/ \E job \in Pending : autoLockAnswersInternal(job)
    \/ \E job \in Pending : autoLockAnswersRead(job)
    \/ \E job \in Pending : autoLockAnswersCheck(job)
    \/ \E job \in Pending : autoLockAnswersLock(job)

\* `arrival`, when not empty, fixes the order in which the joiners arrive
NextWith(configs, joinInputs, arrival, answerInputs, maxPlayers) ==
    \/ \E j \in joinInputs :
            /\ \/ Len(players) < 1 + maxPlayers
               \/ joinQuizOutcome(j.name, j.deviceFingerprint) # "ok"
            /\ arrival # <<>> =>
                  (Len(players) <= Len(arrival) /\ j = arrival[Len(players)])
            /\ joinQuiz(j.name, j.deviceFingerprint)
    \/ \E identity \in Identities, config \in configs :
            updateQuizConfig(identity, config)
    \/ \E identity \in Identities, p \in PlayerIds : kickPlayer(identity, p)
    \/ \E identity \in Identities : endQuiz(identity)
    \/ \E identity \in Identities : skipRound(identity)
    \/ \E identity \in Identities : startGame(identity)
    \/ \E caller \in PlayerIds, r \in RoundIds, text \in Prompts :
            submitPromptBy(caller, r, text)
    \/ \E r \in RoundIds, o \in answerInputs, fp \in Fingerprints :
            submitAnswer(r, o, fp)
    \/ \E identity \in Identities, r \in RoundIds : lockAnswers(identity, r)
    \/ \E identity \in Identities : advancePhase(identity)
    \/ JobStep
    \/ Tick

\* one round, up to MaxPlayers players
Init == InitWith(Configs)
Next == NextWith(Configs, JoinInputs, <<>>, AnswerInputs, MaxPlayers)
Spec == Init /\ [][Next]_vars

\* one player, any accepted totalRounds from 0 to MaxRounds
InitConfig == InitWith(ConfigsAny)
NextConfig == NextWith(ConfigsAny, JoinInputs, <<>>, AnswerInputs, 1)
SpecConfig == InitConfig /\ [][NextConfig]_vars

\* Spec with the scheduler running every autoLockAnswersInternal job it
\* holds (runAfter(0, ...))
SpecLive == Spec /\ WF_vars(\E job \in Pending : autoLockAnswersInternal(job))

\* MaxRounds rounds, one player
InitRounds == InitWith(ConfigsRounds)
NextRounds == NextWith(ConfigsRounds, JoinInputs, <<>>, AnswerInputs, 1)
SpecRounds == InitRounds /\ [][NextRounds]_vars

\* SpecRounds with the answers of AnswerInputsAll
NextAnswers == NextWith(ConfigsRounds, JoinInputs, <<>>, AnswerInputsAll, 1)
SpecAnswers == InitRounds /\ [][NextAnswers]_vars

\* SpecRounds with time also passing while the session waits for a prompt,
\* up to one tick past the tick of Tick: the prompt deadline goes by
TickPrompting ==
    /\ quiz.phase = "prompting"
    /\ now < Epoch + (MaxTicks + 1) * TickMs
    /\ now' = now + TickMs
    /\ UNCHANGED <<tables, scheduled, reply, context>>
NextPrompt ==
    \/ NextWith(ConfigsRounds, JoinInputs, <<>>, AnswerInputs, 1)
    \/ TickPrompting
SpecPrompt == InitRounds /\ [][NextPrompt]_vars


\* Spec with time also passing while the round waits for its lock: the
\* scheduler runs autoLockAnswers at its due time or later, so answers can
\* arrive after answerDeadlineAt with the phase still answering
TickAnswering ==
    /\ quiz.phase = "answering"
    /\ now < Epoch + (MaxTicks + 1) * TickMs
    /\ now' = now + TickMs
    /\ UNCHANGED <<tables, scheduled, reply, context>>
NextLate ==
    \/ NextWith(Configs, JoinInputs, <<>>, AnswerInputsScore, MaxPlayers)
    \/ TickAnswering
SpecLate == Init /\ [][NextLate]_vars

\* one round, one player more than Spec: room for a kicked player next to
\* two eligible ones
NextKick ==
    NextWith(Configs, JoinInputsKick, JoinOrderKick, AnswerInputs, MaxPlayers + 1)
SpecKick == Init /\ [][NextKick]_vars

\* Spec with the joiners of JoinInputsJoin
NextJoin == NextWith(Configs, JoinInputsJoin, <<>>, AnswerInputs, MaxPlayers)
SpecJoin == Init /\ [][NextJoin]_vars

\* The lobby alone: joinQuiz and kickPlayer in any order, with room for
\* kicked rows next to MaxPlayers joined ones
NextLobby ==
    \/ \E j \in JoinInputsJoin :
            /\ \/ Len(players) < 1 + MaxPlayers + 2
               \/ joinQuizOutcome(j.name, j.deviceFingerprint) # "ok"
            /\ joinQuiz(j.name, j.deviceFingerprint)
    \/ \E identity \in Identities, p \in PlayerIds : kickPlayer(identity, p)
SpecLobby == Init /\ [][NextLobby]_vars

\* one round, one player, secondsPerQuestion 0 or 1, right and wrong answers
InitScore == InitWith(ConfigsScore)
NextScore == NextWith(ConfigsScore, JoinInputs, <<>>, AnswerInputsScore, 1)
SpecScore == InitScore /\ [][NextScore]_vars

\* SpecScore with up to MaxPlayers players: a leaderboard of two
NextBoard ==
    NextWith(ConfigsScore, JoinInputs, <<>>, AnswerInputsScore, MaxPlayers)
SpecBoard == InitScore /\ [][NextBoard]_vars

\* The scoring of submitAnswer as a function of its inputs: an answering
\* session with one player and one open round, whose deadline, configuration
\* and clock are drawn from the input sets, and in which the player answers.
InitPoints ==
    /\ \E config \in ConfigsPoints, answerDeadlineAt \in Times :
        quiz = [authorId |-> "owner", config |-> config, phase |-> "answering",
                currentRoundIndex |-> 0, answerDeadlineAt |-> answerDeadlineAt,
                promptDeadlineAt |-> Undefined]
    /\ players = << [name |-> <<"H">>, deviceFingerprint |-> "host",
                     isHost |-> TRUE, score |-> 0, kicked |-> FALSE],
                    [name |-> <<"a">>, deviceFingerprint |-> "f1",
                     isHost |-> FALSE, score |-> 0, kicked |-> FALSE] >>
    /\ \E draws \in ShuffleDraws :
        rounds = << [NewRound(0, 2) EXCEPT !.promptText = <<"q">>,
                        !.aiAnswerOptions = ShuffledOptions(draws)] >>
    /\ playerAnswers = <<>>
    /\ scheduled = EmptyBag
    /\ now \in Times
    /\ reply = Reply("success", "")
    /\ context = NoContext
NextPoints ==
    \E r \in RoundIds, o \in AnswerInputsScore, fp \in Fingerprints :
        submitAnswer(r, o, fp)
SpecPoints == InitPoints /\ [][NextPoints]_vars

\* One generateAiAnswers run followed step by step: the session as
\* submitPrompt leaves it, with one player, the prompt stored and the run
\* scheduled; the host may skip the round or end the quiz meanwhile.
InitAgent ==
    /\ \E config \in Configs :
        quiz = [authorId |-> "owner", config |-> config, phase |-> "generating",
                currentRoundIndex |-> 0, answerDeadlineAt |-> Undefined,
                promptDeadlineAt |-> Undefined]
    /\ players = << [name |-> <<"H">>, deviceFingerprint |-> "host",
                     isHost |-> TRUE, score |-> 0, kicked |-> FALSE],
                    [name |-> <<"a">>, deviceFingerprint |-> "f1",
                     isHost |-> FALSE, score |-> 0, kicked |-> FALSE] >>
    /\ rounds = << [NewRound(0, 2) EXCEPT
                        !.promptText = <<"t", "o", "p", "i", "c">>] >>
    /\ playerAnswers = <<>>
    /\ scheduled = SetToBag(
            {Job("generateAiAnswers", 1, Undefined, Undefined, "scheduled")})
    /\ now = Epoch
    /\ reply = Reply("success", "")
    /\ context = NoContext
AgentStep ==
    \/ \E job \in Pending : agentStart(job)
    \/ \E decision \in Decisions : agentDecide(decision)
    \/ agentExhausted
    \/ \E result \in CallResults : agentSearch(result)
    \/ \E result \in CallResults : agentGenerate(result)
    \/ \E job \in Pending, draws \in ShuffleDraws : agentCommit(job, draws)
    \/ \E job \in Pending : agentCatch(job)
NextAgent ==
    \/ AgentStep
    \/ \E identity \in Identities : skipRound(identity)
    \/ \E identity \in Identities : endQuiz(identity)
SpecAgent == InitAgent /\ [][NextAgent]_vars
\* every awaited call returns or throws, and the runtime then resumes the run
SpecAgentLive == SpecAgent /\ WF_vars(AgentStep)

-----------------------------------------------------------------------------
(* Properties *)

ActiveRounds == RoundsAtIndex(quiz.currentRoundIndex)
IsSynthetic(a) == a.selectedOptionId = ""

\* C1: in every reachable state there is at most one PlayerAnswer for each
\* (playerId, roundId) pair.
C1_OneAnswerPerPlayerAndRound ==
    \A i, j \in DOMAIN playerAnswers :
        (/\ playerAnswers[i].playerId = playerAnswers[j].playerId
         /\ playerAnswers[i].roundId = playerAnswers[j].roundId) => i = j

\* a locked round holding a submitted answer of one player and the synthetic
\* answer of another, with a player kicked
C1_Witness ==
    /\ quiz.phase = "reveal"
    /\ \E i, j \in DOMAIN playerAnswers :
        /\ playerAnswers[i].roundId = playerAnswers[j].roundId
        /\ ~IsSynthetic(playerAnswers[i])
        /\ IsSynthetic(playerAnswers[j])
    /\ \E p \in PlayerIds : players[p].kicked

\* C2: at most one of answerDeadlineAt / promptDeadlineAt is set, and each is
\* set exactly in its phase.
C2_DeadlinesMatchPhase ==
    /\ (quiz.answerDeadlineAt # Undefined) <=> (quiz.phase = "answering")
    /\ (quiz.promptDeadlineAt # Undefined) <=> (quiz.phase = "prompting")

\* the session is generating and the job's round is the active round
CommitExpected(job) ==
    /\ quiz.phase = "generating"
    /\ job.roundId \in ActiveRounds

\* C3: the success commit of the AI orchestrator changes neither the session
\* nor the round unless the session is generating and the round is active.
C3_CommitRevalidates ==
    [][\A job \in Pending, draws \in ShuffleDraws :
          (generateAiAnswersSuccess(job, draws) /\ ~CommitExpected(job))
              => UNCHANGED <<quiz, rounds>>]_vars

TableEdges ==
    {<<"lobby", "prompting">>, <<"prompting", "generating">>,
     <<"generating", "answering">>, <<"answering", "reveal">>,
     <<"reveal", "scoreboard">>, <<"scoreboard", "prompting">>,
     <<"scoreboard", "finished">>}
        \cup {<<ph, "finished">> : ph \in Phases \ {"finished"}}

\* C4: every change of the phase follows an edge of the transition table.
C4_TransitionTable ==
    [][quiz.phase' # quiz.phase => <<quiz.phase, quiz.phase'>> \in TableEdges]_vars

Scores == [p \in PlayerIds |-> players[p].score]

\* C5: once the phase is finished, no operation changes the phase, creates a
\* PlayerAnswer or changes a score.
C5_FinishedIsTerminal ==
    [][quiz.phase = "finished" =>
          /\ quiz.phase' = "finished"
          /\ playerAnswers' = playerAnswers
          /\ Scores' = Scores]_vars

\* a lock of the active round is waiting in the scheduler
LockOutstanding ==
    \E j \in Pending :
        j.fn = "autoLockAnswersInternal" /\ j.roundId \in ActiveRounds

\* this step is the last step of the timeout callback `job`
TimerEnds(job) ==
    /\ job.fn = "autoLockAnswers"
    /\ scheduled' = scheduled (-) SetToBag({job})

\* C6: when the timeout callback scheduled for the current deadline has run
\* in an answering session, the session reaches reveal with no further host
\* or player action: the callback ends with the session in reveal or with a
\* lock of the active round waiting in the scheduler.
C6_TimerReachesReveal ==
    [][\A job \in Pending :
          (/\ quiz.phase = "answering"
           /\ quiz.answerDeadlineAt = job.expectedDeadline
           /\ TimerEnds(job))
              => (quiz.phase' = "reveal" \/ LockOutstanding')]_vars

\* the session no longer waits for the deadline the callback was scheduled for
Stale(job) ==
    \/ quiz.phase # "answering"
    \/ quiz.answerDeadlineAt # job.expectedDeadline

TimerStep(job) ==
    \/ autoLockAnswersRead(job)
    \/ autoLockAnswersCheck(job)
    \/ autoLockAnswersLock(job)

\* C7: a step of a timeout callback taken when the session is not answering
\* or its deadline differs from the callback's changes no table, and the
\* callback ends with a skipped result.
C7_StaleTimerIsNoOp ==
    [][\A job \in Pending :
          (Stale(job) /\ TimerStep(job))
              => /\ UNCHANGED tables
                 /\ TimerEnds(job) => reply'.status = "skipped"]_vars

\* the round has a synthetic answer: a lock has run for it
Locked(roundId) ==
    \E i \in AnswersOfRound(roundId) : IsSynthetic(playerAnswers[i])

\* some trigger runs the lock operation for the round in this step
LockRuns(roundId) ==
    \/ \E identity \in Identities : lockAnswers(identity, roundId)
    \/ \E job \in Pending :
          /\ job.roundId = roundId
          /\ autoLockAnswersInternal(job) \/ autoLockAnswersLock(job)

\* C8: a lock that runs for a round a lock has run for before changes no
\* state: completedAt and the answering -> reveal transition are written once.
C8_LockIsIdempotent ==
    [][\A roundId \in RoundIds :
          (Locked(roundId) /\ LockRuns(roundId)) => UNCHANGED tables]_vars

\* C9: a call of a phase-transition entry point that is processed after the
\* session has left the phase it was issued in returns a skipped result.
C9_StaleCallsAreSkipped ==
    /\ quiz.phase # "lobby" => startGameOutcome("owner") = "skipped"
    /\ \A roundId \in RoundIds :
          /\ (quiz.phase # "prompting" /\ rounds[roundId].promptText # <<>>)
                => \A text \in Prompts :
                      submitPromptOutcome(roundId, text) = "skipped"
          /\ (quiz.phase # "answering" /\ rounds[roundId].completedAt # Undefined)
                => lockAnswersOutcome("owner", roundId) = "skipped"
    /\ quiz.phase = "finished" => advancePhaseOutcome("owner") = "skipped"
    /\ quiz.phase \in {"reveal", "scoreboard", "finished"}
          => skipRoundOutcome("owner") = "nothing to skip"

\* every eligible player has a submitted answer for the active round
AllEligibleSubmitted ==
    /\ EligiblePlayers # {}
    /\ \A r \in ActiveRounds, p \in EligiblePlayers :
          \E i \in AnswersOf(p, r) : ~IsSynthetic(playerAnswers[i])

\* C10: once every eligible player has submitted an answer for the active
\* round, no answer of the round is synthetic and the session reaches reveal
\* without the deadline timer: a lock of the active round is waiting in the
\* scheduler.
C10_AllAnsweredReachesReveal ==
    (quiz.phase = "answering" /\ AllEligibleSubmitted)
        => /\ LockOutstanding
           /\ \A r \in ActiveRounds :
                 \A i \in AnswersOfRound(r) : ~IsSynthetic(playerAnswers[i])

\* every eligible player has a PlayerAnswer for the round
AllEligibleAnswered(roundId) ==
    \A p \in EligiblePlayers : AnswersOf(p, roundId) # {}

\* C11: the all-answered path is taken (submitAnswer schedules the zero-delay
\* lock that moves answering to reveal ahead of the timer) only when every
\* eligible player has a PlayerAnswer for the active round.
C11_AllAnsweredPathOnlyWhenAllAnswered ==
    [][\A r \in RoundIds, o \in AnswerInputs, fp \in Fingerprints :
          (submitAnswer(r, o, fp) /\ scheduled' # scheduled)
              => AllEligibleAnswered(r)']_vars

\* C12: currentRoundIndex never decreases and changes only in advancePhase's
\* scoreboard -> prompting transition, where it grows by exactly 1.
C12_RoundIndexMonotonic ==
    [][/\ quiz.currentRoundIndex' >= quiz.currentRoundIndex
       /\ quiz.currentRoundIndex' # quiz.currentRoundIndex =>
             /\ quiz.phase = "scoreboard" /\ quiz.phase' = "prompting"
             /\ \E identity \in Identities : advancePhase(identity)
       /\ (quiz.phase = "scoreboard" /\ quiz.phase' = "prompting") =>
             quiz.currentRoundIndex' = quiz.currentRoundIndex + 1]_vars

\* the second round has been opened from the scoreboard of the first
C12_Witness ==
    /\ quiz.currentRoundIndex = 1
    /\ quiz.phase = "prompting"
    /\ Len(rounds) = 2

\* C13: an accepted submitAnswer adds 0 points for a wrong option and between
\* 100 and 150 points for the correct one; a lock, which writes the synthetic
\* answers, changes no score.
C13_PointsInRange ==
    [][/\ \A r \in RoundIds, o \in AnswerInputsScore, fp \in Fingerprints :
            (submitAnswerOutcome(r, o, fp) = "ok" /\ submitAnswer(r, o, fp)) =>
                LET isCorrect == playerAnswers'[Len(playerAnswers')].isCorrect
                IN  /\ \A p \in PlayerByFingerprint(fp) :
                          players'[p].score = Add(players[p].score, Points(isCorrect))
                    /\ isCorrect =>
                          Points(isCorrect) \in BasePoints .. BasePoints + BonusScale
                    /\ ~isCorrect => Points(isCorrect) = 0
       /\ \A r \in RoundIds : LockRuns(r) => Scores' = Scores]_vars

Min(a, b) == IF a <= b THEN a ELSE b

\* the reference scoring function of the specification
ReferencePoints(isCorrect, deadlineAt, secondsPerQuestion, nowMs) ==
    IF ~isCorrect THEN 0
    ELSE BasePoints
         + Min(BonusScale,
               Max(0, ((deadlineAt - nowMs) * BonusScale)
                          \div (secondsPerQuestion * MsPerSecond)))

C15_ScoresOnlyGrow ==
    [][/\ \A p \in PlayerIds' \ PlayerIds : players'[p].score = 0
       /\ \A p \in PlayerIds :
            /\ players'[p].score \notin {NaN, Infinity}
            /\ players'[p].score >= players[p].score
            /\ players[p].score >= 0
            /\ players'[p].score # players[p].score =>
                  \E r \in RoundIds, o \in AnswerInputsScore :
                      /\ p \in PlayerByFingerprint(players[p].deviceFingerprint)
                      /\ submitAnswer(r, o, players[p].deviceFingerprint)]_vars

\* the non-kicked non-host players the fingerprint matches
Matching(fp) ==
    {p \in PlayerIds : /\ players[p].deviceFingerprint = fp
                       /\ ~players[p].kicked /\ ~players[p].isHost}

\* one of the grounds on which submitAnswer is to be rejected
RejectedCall(r, o, fp) ==
    \/ quiz.phase # "answering"
    \/ r \notin ActiveRounds
    \/ \A k \in DOMAIN rounds[r].aiAnswerOptions : rounds[r].aiAnswerOptions[k].id # o
    \/ Matching(fp) = {}
    \/ \E p \in Matching(fp) : AnswersOf(p, r) # {}

\* C16: a submitAnswer call that is to be rejected (wrong phase, round not
\* active, unknown option, no matching non-kicked non-host player, already
\* answered) inserts no PlayerAnswer, changes no score and schedules no lock.
C16_RejectedSubmitChangesNothing ==
    [][\A r \in RoundIds, o \in AnswerInputs \cup AnswerInputsScore,
         fp \in Fingerprints :
          (RejectedCall(r, o, fp) /\ submitAnswer(r, o, fp))
              => UNCHANGED <<playerAnswers, players, scheduled>>]_vars

\* an answering session with a player who has answered (a second answer is
\* AlreadyAnswered) and a kicked player (whose device matches no player)
C16_Witness ==
    /\ quiz.phase = "answering"
    /\ \E r \in ActiveRounds, fp \in Fingerprints :
          /\ Matching(fp) # {}
          /\ submitAnswerOutcome(r, "correct", fp) = "error: already answered"
    /\ \E r \in ActiveRounds, p \in PlayerIds :
          /\ players[p].kicked
          /\ RejectedCall(r, "correct", players[p].deviceFingerprint)

\* some host-only entry point is called with this identity in this step
HostCall(identity) ==
    \/ startGame(identity)
    \/ advancePhase(identity)
    \/ skipRound(identity)
    \/ endQuiz(identity)
    \/ \E r \in RoundIds : lockAnswers(identity, r)
    \/ \E p \in PlayerIds : kickPlayer(identity, p)
    \/ \E config \in Configs \cup ConfigsRounds \cup ConfigsScore :
          updateQuizConfig(identity, config)

\* C17: a host-only entry point called without an identity or with an
\* identity other than the session's owner changes nothing.
C17_HostOnly ==
    [][\A identity \in Identities :
          (identity # quiz.authorId /\ HostCall(identity))
              => UNCHANGED <<tables, scheduled>>]_vars

\* an answering session with an unanswered player: the owner's lockAnswers,
\* skipRound, endQuiz and kickPlayer would all act here, and the same calls
\* of a stranger and of an unauthenticated caller are refused
C17_Witness ==
    /\ quiz.phase = "answering"
    /\ \E r \in ActiveRounds, p \in EligiblePlayers :
          /\ AnswersOf(p, r) = {}
          /\ lockAnswersOutcome("owner", r) = "ok"
          /\ kickPlayerOutcome("owner", p) = "ok"
          /\ \A identity \in Identities \ {"owner"} :
                /\ lockAnswersOutcome(identity, r) = "error: auth"
                /\ kickPlayerOutcome(identity, p) = "error: auth"
                /\ skipRoundOutcome(identity) = "error: auth"
                /\ endQuizOutcome(identity) = "error: auth"

\* C18: startGame by the owner in a lobby with an eligible player moves to
\* prompting, appends one round with roundIndex 0 and sets promptDeadlineAt =
\* now + secondsForPrompt * 1000; any other startGame changes neither session
\* nor rounds; lobby is left for prompting by startGame only.
C18_StartGame ==
    [][/\ \A identity \in Identities :
            startGame(identity) =>
                IF /\ identity = quiz.authorId
                   /\ quiz.phase = "lobby"
                   /\ \E p \in PlayerIds : ~players[p].isHost /\ ~players[p].kicked
                THEN /\ quiz'.phase = "prompting"
                     /\ quiz'.promptDeadlineAt =
                            now + quiz.config.secondsForPrompt * MsPerSecond
                     /\ Len(rounds') = Len(rounds) + 1
                     /\ SubSeq(rounds', 1, Len(rounds)) = rounds
                     /\ rounds'[Len(rounds')].roundIndex = 0
                     /\ {r \in DOMAIN rounds' : rounds'[r].roundIndex = 0}
                            = {Len(rounds')}
                ELSE UNCHANGED <<quiz, rounds>>
       /\ (quiz.phase = "lobby" /\ quiz'.phase = "prompting") =>
            /\ \E p \in PlayerIds : ~players[p].isHost /\ ~players[p].kicked
            /\ \E identity \in Identities : startGame(identity)]_vars

\* the game has been started in a lobby that held a kicked player as well
C18_Witness ==
    /\ quiz.phase = "prompting"
    /\ Len(rounds) = 1 /\ rounds[1].roundIndex = 0
    /\ quiz.promptDeadlineAt = now + quiz.config.secondsForPrompt * MsPerSecond
    /\ \E p \in PlayerIds : players[p].kicked

\* C19: an advancePhase that acts in scoreboard moves to prompting exactly
\* when currentRoundIndex + 1 < totalRounds, and then appends one round with
\* roundIndex = currentRoundIndex + 1 and sets promptDeadlineAt; otherwise it
\* moves to finished, creates no round and leaves currentRoundIndex unchanged.
C19_AdvanceFromScoreboard ==
    [][\A identity \in Identities :
          (quiz.phase = "scoreboard" /\ advancePhase(identity)) =>
              IF quiz.currentRoundIndex + 1 < quiz.config.totalRounds
              THEN /\ quiz'.phase = "prompting"
                   /\ quiz'.currentRoundIndex = quiz.currentRoundIndex + 1
                   /\ quiz'.promptDeadlineAt =
                          now + quiz.config.secondsForPrompt * MsPerSecond
                   /\ Len(rounds') = Len(rounds) + 1
                   /\ SubSeq(rounds', 1, Len(rounds)) = rounds
                   /\ {r \in DOMAIN rounds' :
                          rounds'[r].roundIndex = quiz.currentRoundIndex + 1}
                          = {Len(rounds')}
              ELSE /\ quiz'.phase = "finished"
                   /\ quiz'.currentRoundIndex = quiz.currentRoundIndex
                   /\ rounds' = rounds]_vars

\* both branches taken: the last round was opened from the scoreboard of the
\* round before it and the session was finished from its own scoreboard
C19_Witness ==
    /\ quiz.phase = "finished"
    /\ quiz.currentRoundIndex = quiz.config.totalRounds - 1
    /\ Len(rounds) = quiz.config.totalRounds
    /\ Len(rounds) > 1
    /\ \A r \in RoundIds : rounds[r].completedAt # Undefined
    /\ reply = Reply("success", "")

\* rounds remain and every non-host player has been kicked
NoPlayersAvailable ==
    /\ quiz.phase = "scoreboard"
    /\ quiz.currentRoundIndex + 1 < quiz.config.totalRounds
    /\ \A p \in PlayerIds : players[p].isHost \/ players[p].kicked

\* C20: advancePhase in scoreboard with rounds remaining and no non-kicked
\* non-host player fails with the no-players error and changes neither the
\* session nor the rounds.
C20_NoPlayersNoTransition ==
    [][NoPlayersAvailable =>
          /\ advancePhaseOutcome(quiz.authorId) = "error: no players"
          /\ \A identity \in Identities :
                advancePhase(identity) => UNCHANGED <<quiz, rounds>>]_vars

\* the scoreboard of the first round after the only player was kicked
C20_Witness ==
    /\ NoPlayersAvailable
    /\ \E p \in PlayerIds : players[p].kicked
    /\ \A r \in RoundIds : rounds[r].completedAt # Undefined

\* the text without the blanks at its two ends, stated on positions
LeadingBlanks(text) ==
    CHOOSE a \in 0 .. Len(text) :
        /\ \A k \in 1 .. a : text[k] = " "
        /\ a = Len(text) \/ text[a + 1] # " "
TrailingBlanks(text) ==
    CHOOSE b \in 0 .. Len(text) - LeadingBlanks(text) :
        /\ \A k \in Len(text) - b + 1 .. Len(text) : text[k] = " "
        /\ b = Len(text) - LeadingBlanks(text) \/ text[Len(text) - b] # " "
Trimmed(text) ==
    [k \in 1 .. Len(text) - LeadingBlanks(text) - TrailingBlanks(text) |->
        text[LeadingBlanks(text) + k]]

PromptAccepted(roundId, text) ==
    /\ quiz.phase = "prompting"
    /\ roundId \in ActiveRounds
    /\ Len(Trimmed(text)) >= MinPromptLen
    /\ Len(Trimmed(text)) <= MaxPromptLen

\* C21: submitPrompt succeeds only in prompting, on the active round, with a
\* trimmed prompt of 5 to 500 characters; a success stores the trimmed text,
\* moves to generating, clears promptDeadlineAt and schedules exactly one
\* generation run for the round; a failure changes nothing.
C21_SubmitPrompt ==
    [][\A r \in RoundIds, text \in Prompts :
        submitPrompt(r, text) =>
            IF PromptAccepted(r, text)
            THEN /\ rounds'[r].promptText = Trimmed(text)
                 /\ quiz'.phase = "generating"
                 /\ quiz'.promptDeadlineAt = Undefined
                 /\ \E job \in BagToSet(scheduled') :
                      /\ job.fn = "generateAiAnswers" /\ job.roundId = r
                      /\ scheduled' = scheduled (+) SetToBag({job})
            ELSE UNCHANGED vars]_vars

\* a prompt was accepted: the session generates, the trimmed text is on the
\* active round and its generation run is pending
C21_Witness ==
    /\ quiz.phase = "generating"
    /\ quiz.promptDeadlineAt = Undefined
    /\ \E r \in ActiveRounds :
        /\ rounds[r].promptText = <<"t", "o", "p", "i", "c">>
        /\ \E job \in Pending : job.fn = "generateAiAnswers" /\ job.roundId = r

\* C22: submitPrompt is accepted only from the player recorded as the
\* round's prompterPlayerId; a submission by any other caller changes nothing.
C22_OnlyPrompterSubmits ==
    [][\A caller \in PlayerIds, r \in RoundIds, text \in Prompts :
        (submitPromptBy(caller, r, text) /\ caller # rounds[r].prompterPlayerId)
            => UNCHANGED vars]_vars

GenerationJobs(roundId) ==
    {job \in Pending : job.fn = "generateAiAnswers" /\ job.roundId = roundId}

C24_AnsweringSetsDeadlineAndTimer ==
    [][(quiz' # quiz /\ quiz'.phase = "answering") =>
        /\ quiz'.answerDeadlineAt =
              now + quiz.config.secondsPerQuestion * MsPerSecond
        /\ \E run \in Pending :
            /\ run.fn = "generateAiAnswers"
            /\ scheduled' = (scheduled (-) SetToBag({run})) (+) SetToBag(
                  {[fn |-> "autoLockAnswers", roundId |-> run.roundId,
                    runAt |-> now + quiz.config.secondsPerQuestion * MsPerSecond,
                    expectedDeadline |-> quiz'.answerDeadlineAt,
                    pc |-> "scheduled"]})]_vars

\* an answering session whose timer is pending for the deadline on the quiz
C24_Witness ==
    /\ quiz.phase = "answering"
    /\ quiz.answerDeadlineAt > now
    /\ \E r \in ActiveRounds, job \in Pending :
        /\ job.fn = "autoLockAnswers" /\ job.roundId = r
        /\ job.pc = "scheduled"
        /\ job.expectedDeadline = quiz.answerDeadlineAt
        /\ job.runAt = quiz.answerDeadlineAt

WellFormedOptions(options) ==
    /\ Len(options) = 4
    /\ \A i, j \in DOMAIN options : options[i].id = options[j].id => i = j
    /\ Cardinality({i \in DOMAIN options : options[i].isCorrect}) = 1

\* C25: whenever the session is in answering, its active round has its
\* answer options set: exactly 4 entries, pairwise distinct ids, exactly one
\* correct.
C25_AnsweringHasOptions ==
    quiz.phase = "answering" =>
        /\ ActiveRounds # {}
        /\ \A r \in ActiveRounds : WellFormedOptions(rounds[r].aiAnswerOptions)

KnownDevice(deviceFingerprint) ==
    \E p \in PlayerIds :
        players[p].deviceFingerprint = deviceFingerprint /\ ~players[p].kicked

\* C26: a player row is created only while the session is in lobby; a
\* joinQuiz from a device that has a non-kicked player is a reconnect in any
\* phase: it is accepted, returns that player's id, creates no row and
\* changes no table and no scheduled job.
C26_JoinOnlyInLobbyReconnectAnywhere ==
    /\ [][Len(players') > Len(players) => quiz.phase = "lobby"]_vars
    /\ [](\A j \in JoinInputsJoin :
            KnownDevice(j.deviceFingerprint) =>
                LET p == joinQuizPlayerId(j.name, j.deviceFingerprint)
                IN  /\ joinQuizOutcome(j.name, j.deviceFingerprint) = "rejoin"
                    /\ p \in PlayerIds
                    /\ players[p].deviceFingerprint = j.deviceFingerprint
                    /\ ~players[p].kicked)
    /\ [][\A j \in JoinInputsJoin :
            (KnownDevice(j.deviceFingerprint)
                /\ joinQuiz(j.name, j.deviceFingerprint))
                    => UNCHANGED <<tables, scheduled>>]_vars

\* past the lobby: a reconnect has just been answered, the device of a
\* kicked player and an unknown device are turned away
C26_Witness ==
    /\ quiz.phase = "answering"
    /\ reply = Reply("success", "")
    /\ \E p \in PlayerIds : players[p].kicked /\ ~KnownDevice(players[p].deviceFingerprint)
    /\ \E j \in JoinInputsJoin :
        joinQuizOutcome(j.name, j.deviceFingerprint) = "rejoin"
    /\ \E j \in JoinInputsJoin :
        joinQuizOutcome(j.name, j.deviceFingerprint) = "error: started"

\* C27: among the non-kicked players of the session no two have the same
\* name and no two have the same device fingerprint.
C27_UniqueNamesAndDevices ==
    \A p, q \in PlayerIds :
        (p # q /\ ~players[p].kicked /\ ~players[q].kicked) =>
            /\ players[p].name # players[q].name
            /\ players[p].deviceFingerprint # players[q].deviceFingerprint

\* two players in the session next to a kicked row whose name and device
\* are in use again
C27_Witness ==
    \E k, p, q \in PlayerIds :
        /\ players[k].kicked /\ ~players[p].kicked /\ ~players[q].kicked
        /\ p # q /\ ~players[p].isHost /\ ~players[q].isHost
        /\ players[p].name = players[k].name
        /\ players[q].deviceFingerprint = players[k].deviceFingerprint

\* C28: a kick is never undone, and a kicked player is out of the game: the
\* score stays, no answer row (submitted or synthetic) is created for them,
\* no round created afterwards has them as prompter, the all-answered check
\* counts only non-kicked non-host players as eligible, and neither
\* getLeaderboard nor the players of getQuizLive list them.
C28_KickedIsExcluded ==
    /\ [][\A p \in PlayerIds :
            players[p].kicked =>
                /\ players'[p].kicked
                /\ players'[p].score = players[p].score
                /\ \A i \in DOMAIN playerAnswers' \ DOMAIN playerAnswers :
                        playerAnswers'[i].playerId # p
                /\ \A r \in DOMAIN rounds' \ DOMAIN rounds :
                        rounds'[r].prompterPlayerId # p]_vars
    /\ [](\A r \in RoundIds :
            checkAllPlayersAnswered(r) <=>
                LET remaining == {p \in PlayerIds :
                                    ~players[p].isHost /\ ~players[p].kicked}
                IN  /\ remaining # {}
                    /\ Cardinality(AnswersOfRound(r)) >= Cardinality(remaining))
    /\ [](\A k \in DOMAIN getLeaderboard :
            ~players[getLeaderboard[k].playerId].kicked)
    /\ [](\A k \in DOMAIN getQuizLivePlayers :
            ~players[getQuizLivePlayers[k].playerId].kicked)

\* a round was locked after a kick: the kicked player has no answer for it,
\* the other player has a synthetic one
C28_Witness ==
    /\ quiz.phase = "reveal"
    /\ \E p, q \in PlayerIds, r \in ActiveRounds :
        /\ players[p].kicked /\ AnswersOf(p, r) = {}
        /\ ~players[q].kicked
        /\ \E i \in AnswersOf(q, r) : IsSynthetic(playerAnswers[i])
        /\ Len(getLeaderboard) = 1
        /\ Len(getQuizLivePlayers) = 2

\* a >= b of JavaScript numbers: false when either is NaN
Geq(a, b) ==
    IF a = NaN \/ b = NaN THEN FALSE
    ELSE IF a = Infinity THEN TRUE
    ELSE IF b = Infinity THEN FALSE
    ELSE a >= b

\* C29: getLeaderboard lists exactly the non-host, non-kicked players, each
\* once, by score descending, ties by name ascending, with the positions
\* 1, 2, ..., n in that order.
C29_Leaderboard ==
    LET board == getLeaderboard
        listed == {p \in PlayerIds : ~players[p].isHost /\ ~players[p].kicked}
    IN  /\ {board[k].playerId : k \in DOMAIN board} = listed
        /\ Len(board) = Cardinality(listed)
        /\ \A k \in DOMAIN board :
            /\ board[k].position = k
            /\ board[k].score = players[board[k].playerId].score
            /\ board[k].name = players[board[k].playerId].name
        /\ \A k \in 1 .. Len(board) - 1 :
            /\ Geq(board[k].score, board[k + 1].score)
            /\ board[k].score = board[k + 1].score =>
                    localeCompare(board[k].name, board[k + 1].name) < 0

\* C30: no two rounds share a roundIndex, and whenever the phase is neither
\* lobby nor finished exactly one round has roundIndex = currentRoundIndex.
C30_OneActiveRound ==
    /\ \A r, q \in RoundIds : rounds[r].roundIndex = rounds[q].roundIndex => r = q
    /\ quiz.phase \notin {"lobby", "finished"} =>
            Cardinality({r \in RoundIds :
                            rounds[r].roundIndex = quiz.currentRoundIndex}) = 1

\* the second round is being played: two rounds, the later one active
C30_Witness ==
    /\ quiz.phase = "answering"
    /\ Len(rounds) = 2
    /\ quiz.currentRoundIndex = 1
    /\ rounds[1].roundIndex = 0 /\ rounds[2].roundIndex = 1
    /\ rounds[2].aiAnswerOptions # <<>>

\* C31: a generateAiAnswers run terminates; it makes at most MaxSteps
\* decideNextAction calls and at most one generateTriviaQuestion call; when
\* the step budget is used up without a generate action it generates once
\* without search context; and it ends with exactly one commit having taken
\* effect, advanceToAnswering or markRoundErrored.
C31_RunTerminatesWithOneCommit ==
    /\ [](/\ context.decideCalls <= MaxSteps
          /\ context.generateCalls <= 1
          /\ Len(context.commits) <= 1
          /\ context.pc = "done" => Len(context.commits) = 1
          /\ context.pc # "done" => context.commits = <<>>)
    /\ [][(context.stepCount = MaxSteps /\ context.pc = "while"
             /\ context' # context)
            => context'.pc = "fallback" /\ context'.generateCalls = 0]_vars
    /\ [][(context.pc = "fallback" /\ context' # context)
            => /\ context'.generateCalls = 1
               /\ ~context'.withSearchContext
               /\ context'.decideCalls = context.decideCalls]_vars
    /\ [][context'.commits # context.commits =>
            \/ /\ context'.commits = <<"advanceToAnswering">>
               /\ quiz'.phase = "answering"
               /\ \E r \in RoundIds :
                    rounds[r].aiAnswerOptions = <<>>
                        /\ rounds'[r].aiAnswerOptions # <<>>
            \/ /\ context'.commits = <<"markRoundErrored">>
               /\ quiz' = quiz
               /\ \E r \in RoundIds :
                    ~rounds[r].aiErrored /\ rounds'[r].aiErrored]_vars
    /\ <>(context.pc = "done")

\* a run that used its whole step budget on searches, generated without
\* search context and committed
C31_Witness ==
    /\ context.pc = "done"
    /\ context.decideCalls = MaxSteps
    /\ context.searchResults = MaxSteps
    /\ context.generateCalls = 1
    /\ ~context.withSearchContext
    /\ context.commits = <<"advanceToAnswering">>
    /\ quiz.phase = "answering"

\* C32: a failed web search does not mark the round errored: the run leaves
\* the loop and still makes one generateTriviaQuestion call; a round is
\* marked errored only after a step other than the search call threw.
C32_SearchFailureIsNotAnError ==
    /\ [][(context.pc = "search" /\ context'.searchFailed)
            => /\ context'.pc = "fallback"
               /\ context'.threw = ""
               /\ rounds' = rounds]_vars
    /\ [][(context.searchFailed /\ context.generateCalls = 0
             /\ context' # context)
            => context'.generateCalls = 1]_vars
    /\ [](context.searchFailed /\ context.pc = "done"
            => context.generateCalls = 1)
    /\ [](\A r \in RoundIds :
            rounds[r].aiErrored =>
                /\ context.threw \in {"decideNextAction", "searchQuery",
                                      "generateTriviaQuestion",
                                      "advanceToAnswering"}
                /\ context.searchFailed =>
                        context.threw = "generateTriviaQuestion")

\* a search failed and the run still generated and committed its question
C32_Witness ==
    /\ context.pc = "done"
    /\ context.searchFailed
    /\ context.searchResults > 0
    /\ context.generateCalls = 1
    /\ context.commits = <<"advanceToAnswering">>
    /\ \A r \in RoundIds : ~rounds[r].aiErrored

\* the rows of playerAnswers' the step has added
AddedAnswers == DOMAIN playerAnswers' \ DOMAIN playerAnswers

\* C33: the host's skipRound.  In answering it schedules the lock for the
\* active round and writes nothing itself; the lock, run while the round is
\* still being answered, brings the session to reveal with a synthetic
\* no-answer row for exactly the eligible players without an answer, and a
\* pending lock always ends the answering of its round.  In prompting or
\* generating it sets the active round's completedAt and moves to reveal,
\* clearing promptDeadlineAt and creating no answer row.  In scoreboard or
\* finished it changes nothing and reports that nothing was skipped.
C33_SkipRound ==
    /\ [][skipRound(quiz.authorId) =>
            /\ quiz.phase = "answering" =>
                  /\ \E r \in ActiveRounds :
                        scheduled' = scheduled (+) SetToBag(
                            {[fn |-> "autoLockAnswersInternal", roundId |-> r,
                              runAt |-> Undefined, expectedDeadline |-> Undefined,
                              pc |-> "scheduled"]})
                  /\ UNCHANGED tables
                  /\ reply' = Reply("success", "")
            /\ quiz.phase \in {"prompting", "generating"} =>
                  /\ \E r \in ActiveRounds :
                        rounds' = [rounds EXCEPT ![r].completedAt = now]
                  /\ quiz' = [quiz EXCEPT !.phase = "reveal",
                                          !.promptDeadlineAt = Undefined]
                  /\ UNCHANGED <<players, playerAnswers, scheduled>>
                  /\ reply' = Reply("success", "")
            /\ quiz.phase \in {"scoreboard", "finished"} =>
                  /\ UNCHANGED <<tables, scheduled>>
                  /\ reply' = Reply("skipped: false", "")]_vars
    /\ [][\A job \in Pending :
            (/\ job.fn = "autoLockAnswersInternal"
             /\ quiz.phase = "answering" /\ job.roundId \in ActiveRounds
             /\ autoLockAnswersInternal(job)) =>
                /\ quiz'.phase = "reveal"
                /\ quiz'.answerDeadlineAt = Undefined
                /\ rounds'[job.roundId].completedAt = now
                /\ \A i \in DOMAIN playerAnswers : playerAnswers'[i] = playerAnswers[i]
                /\ \A i \in AddedAnswers :
                      /\ playerAnswers'[i].roundId = job.roundId
                      /\ playerAnswers'[i].selectedOptionId = ""
                      /\ ~playerAnswers'[i].isCorrect
                /\ \A p \in PlayerIds :
                      Cardinality({i \in AddedAnswers :
                                      playerAnswers'[i].playerId = p}) =
                          IF ~players[p].isHost /\ ~players[p].kicked
                                /\ AnswersOf(p, job.roundId) = {}
                          THEN 1 ELSE 0]_vars
    /\ (quiz.phase = "answering" /\ LockOutstanding) ~> (quiz.phase # "answering")

\* a skipped answering round after its lock: one player had answered, the
\* other got the synthetic row
C33_Witness ==
    /\ quiz.phase = "reveal"
    /\ quiz.answerDeadlineAt = Undefined
    /\ now < Epoch + TickMs
    /\ \E r \in ActiveRounds :
        /\ rounds[r].completedAt # Undefined
        /\ \E i, j \in AnswersOfRound(r) :
            /\ ~IsSynthetic(playerAnswers[i])
            /\ IsSynthetic(playerAnswers[j])
    /\ \A job \in Pending : job.fn = "autoLockAnswers"

\* C34: a session has at most config.totalRounds rounds, their roundIndex
\* values are exactly 0 .. currentRoundIndex once the game has started (a
\* round exists), and currentRoundIndex < config.totalRounds.
C34_RoundsWithinTotal ==
    /\ Len(rounds) <= quiz.config.totalRounds
    /\ rounds # <<>> =>
            {rounds[r].roundIndex : r \in RoundIds} = 0 .. quiz.currentRoundIndex
    /\ quiz.currentRoundIndex < quiz.config.totalRounds

\* the same for the sessions configured with at least one round
C34_RoundsWithinPositiveTotal ==
    quiz.config.totalRounds >= 1 => C34_RoundsWithinTotal

\* C35: updateQuizConfig succeeds only in lobby: outside lobby no step
\* changes the config and an updateQuizConfig call changes nothing, and a
\* session whose game has started is never in lobby.
C35_ConfigFrozenAfterStart ==
    /\ [][quiz.phase # "lobby" => quiz'.config = quiz.config]_vars
    /\ [][\A identity \in Identities, config \in ConfigsAny :
            (quiz.phase # "lobby" /\ updateQuizConfig(identity, config))
                => UNCHANGED vars]_vars
    /\ [][\A config \in ConfigsAny :
            (quiz.phase = "lobby" /\ updateQuizConfig(quiz.authorId, config))
                => quiz' = [quiz EXCEPT !.config = config]]_vars
    /\ [](rounds # <<>> => quiz.phase # "lobby")

\* a started game whose host asks for another configuration in vain
C35_Witness ==
    /\ quiz.phase = "answering"
    /\ quiz.config.totalRounds = MaxRounds
    /\ quiz.currentRoundIndex = 1
    /\ \E config \in ConfigsAny : config # quiz.config
    /\ updateQuizConfigOutcome(quiz.authorId) = "error: not lobby"

\* C36: nothing is tied to promptDeadlineAt.  While the session is in
\* prompting the passing of time changes no table and no job, submitPrompt
\* is accepted after the deadline as before it, and the session leaves
\* prompting only through submitPrompt, skipRound or endQuiz.
C36_PromptDeadlineIsInert ==
    /\ [][(quiz.phase = "prompting" /\ now' # now)
            => UNCHANGED <<tables, scheduled>>]_vars
    /\ [](quiz.phase = "prompting" =>
            \A r \in ActiveRounds :
                submitPromptOutcome(r, <<"t", "o", "p", "i", "c">>) = "ok")
    /\ [][(quiz.phase = "prompting" /\ quiz'.phase # "prompting") =>
            \/ \E caller \in PlayerIds, r \in RoundIds, text \in Prompts :
                    submitPromptBy(caller, r, text)
            \/ \E identity \in Identities : skipRound(identity)
            \/ \E identity \in Identities : endQuiz(identity)]_vars

\* the same without the last part: time and the deadline alone
C36_DeadlinePassesUnnoticed ==
    /\ [][(quiz.phase = "prompting" /\ now' # now)
            => UNCHANGED <<tables, scheduled>>]_vars
    /\ [](quiz.phase = "prompting" =>
            \A r \in ActiveRounds :
                submitPromptOutcome(r, <<"t", "o", "p", "i", "c">>) = "ok")

\* C37: a submitAnswer that arrives after answerDeadlineAt while the phase
\* is still answering is accepted on the same conditions as any other (a
\* valid option of the active round, a known player without an answer for
\* the round) and appends the player's row; a correct one adds exactly
\* BasePoints to the score, an incorrect one nothing; and a lock writes "no
\* answer" rows only for players without a row, so not for this player.
AnswerIsLate ==
    /\ quiz.phase = "answering"
    /\ quiz.answerDeadlineAt # Undefined
    /\ now > quiz.answerDeadlineAt

CorrectAnswers(p) ==
    Cardinality({i \in DOMAIN playerAnswers :
                    playerAnswers[i].playerId = p /\ playerAnswers[i].isCorrect})

C38_ScoreWithinBounds ==
    \A p \in PlayerIds :
        /\ players[p].score \notin {NaN, Infinity}
        /\ BasePoints * CorrectAnswers(p) <= players[p].score
        /\ players[p].score <= (BasePoints + BonusScale) * CorrectAnswers(p)

\* the same for the sessions whose secondsPerQuestion is at least 1
C38_ScoreWithinBoundsPositiveTime ==
    quiz.config.secondsPerQuestion >= 1 => C38_ScoreWithinBounds

\* C39: every answer row names a non-host player and a round of the
\* session; a row with selectedOptionId = "" has isCorrect = FALSE and is
\* written by a lock (lockAnswers, autoLockAnswersInternal or the lock of
\* autoLockAnswers), never by submitAnswer, which rejects the empty id; any
\* other row names an option of its round and carries that option's
\* isCorrect; and a row, once written, is never changed or removed.
C39_AnswerRows ==
    /\ [](\A i \in DOMAIN playerAnswers :
            LET a == playerAnswers[i]
            IN  /\ a.playerId \in PlayerIds
                /\ ~players[a.playerId].isHost
                /\ a.roundId \in RoundIds
                /\ IF a.selectedOptionId = ""
                   THEN ~a.isCorrect
                   ELSE LET options == rounds[a.roundId].aiAnswerOptions
                            found == {k \in DOMAIN options :
                                        options[k].id = a.selectedOptionId}
                        IN  /\ found # {}
                            /\ \A k \in found : options[k].isCorrect = a.isCorrect)
    /\ [](\A r \in RoundIds, fp \in Fingerprints :
            submitAnswerOutcome(r, "", fp) # "ok")
    /\ [][\A i \in AddedAnswers :
            playerAnswers'[i].selectedOptionId = "" =>
                /\ quiz.phase = "answering" /\ quiz'.phase = "reveal"
                /\ \/ \E identity \in Identities, r \in RoundIds :
                            lockAnswers(identity, r)
                   \/ \E job \in Pending : autoLockAnswersInternal(job)
                   \/ \E job \in Pending : autoLockAnswersLock(job)]_vars
    /\ [][\A i \in DOMAIN playerAnswers :
            i \in DOMAIN playerAnswers' /\ playerAnswers'[i] = playerAnswers[i]]_vars

\* a wrong answer in one round and a "no answer" row in the other
C39_Witness ==
    \E i, j \in DOMAIN playerAnswers :
        /\ playerAnswers[i].selectedOptionId = "distractor_1"
        /\ ~playerAnswers[i].isCorrect
        /\ playerAnswers[j].selectedOptionId = ""
        /\ playerAnswers[j].roundId # playerAnswers[i].roundId
        /\ reply = Reply("success", "timeout")

====
